---------------------------- MODULE Spec2Model ----------------------------
(***************************************************************************)
(* Model of the AI merge analyzer: the issue extractor (ai_postprocess.py), *)
(* the diff indexer (diff_parser.py), the inline-comment publisher         *)
(* (post_inline_comments.py) and the analysis orchestrator                  *)
(* (analyze_diff.py).                                                       *)
(*                                                                         *)
(* Texts are sequences of tokens.  A token is one character (" ", "\n",    *)
(* a digit, a letter) or one fixed substring that the code looks for as a  *)
(* whole (a label such as "File:", the delimiter "---", a status phrase).  *)
(* Hyphens occur in the modelled texts only in runs of three.              *)
(***************************************************************************)
EXTENDS Integers, Sequences, FiniteSets, TLC

VARIABLES
    pc,            \* position of the running script / function
    report_text,   \* the report handed to parse_ai_issues
    issues,        \* the list parse_ai_issues returned
    diff_content,  \* the diff handed to get_valid_diff_lines
    valid_lines,   \* what get_valid_diff_lines produced (a set, or an exception)
    idx,           \* publisher: number of issues the for loop has consumed
    posts,         \* publisher: the comment POSTs sent, in order
    log,           \* publisher: the lines printed, in order
    args,          \* analyze_merge_issues: the call's arguments
    requests_sent, \* analyze_merge_issues: HTTP requests sent by the call
    result         \* analyze_merge_issues: what the call produced

vars == <<pc, report_text, issues, diff_content, valid_lines, idx, posts, log,
          args, requests_sent, result>>

---------------------------------------------------------------------------
(* Bounds of the model *)

MaxLen == 5

MaxIssues == 2

MaxHunkLines == 2

MaxStart == 2

MaxHunks == 2

MaxRespLen == 4

---------------------------------------------------------------------------
(* Strings *)

SP == " "
NL == "\n"
HR == "---"

Digits == {"1", "2"}

IsSpace(c) == c \in {SP, NL}

IsDigit(c) == c \in Digits

DigitVal(c) == IF c = "1" THEN 1 ELSE 2

RECURSIVE SeqsUpTo(_, _)
SeqsUpTo(S, n) ==
    IF n = 0 THEN {<<>>}
    ELSE LET shorter == SeqsUpTo(S, n - 1)
         IN  shorter \cup {Append(s, c) : s \in {t \in shorter : Len(t) = n - 1}, c \in S}

Min(S) == CHOOSE x \in S : \A y \in S : x <= y

Max(S) == CHOOSE x \in S : \A y \in S : x >= y

(* str.strip(): leading and trailing whitespace removed *)
strip(s) ==
    LET keep == {i \in 1..Len(s) : ~IsSpace(s[i])}
    IN  IF keep = {} THEN <<>> ELSE SubSeq(s, Min(keep), Max(keep))

(* int() of a non-empty run of decimal digits *)
RECURSIVE int(_)
int(ds) ==
    IF Len(ds) = 0 THEN 0
    ELSE 10 * int(SubSeq(ds, 1, Len(ds) - 1)) + DigitVal(ds[Len(ds)])

(* the end of the source line that position k lies on: `.` stops at "\n" *)
LineEnd(s, k) ==
    LET nls == {m \in k..Len(s) : s[m] = NL}
    IN  IF nls = {} THEN Len(s) ELSE Min(nls) - 1

---------------------------------------------------------------------------
(* ai_postprocess.py *)

NoMatch == [matched |-> FALSE, group |-> <<>>]

(* str.split('---') *)
RECURSIVE split(_)
split(s) ==
    IF \A i \in 1..Len(s) : s[i] # HR THEN <<s>>
    ELSE LET i == Min({k \in 1..Len(s) : s[k] = HR})
         IN  <<SubSeq(s, 1, i - 1)>> \o split(SubSeq(s, i + 1, Len(s)))

(* Where group 1 of  label\s*(.+)  starts when the label is at position i:  *)
(* \s* is greedy and also matches "\n"; it gives back whitespace until .+   *)
(* finds a character that is not a line break.                              *)
GroupStarts(block, i) ==
    {k \in (i + 1)..Len(block) :
        /\ block[k] # NL
        /\ \A m \in (i + 1)..(k - 1) : IsSpace(block[m])}

(* re.search(label + r'\s*(.+)', block) *)
SearchRest(label, block) ==
    LET starts == {i \in 1..Len(block) :
                      block[i] = label /\ GroupStarts(block, i) # {}}
    IN  IF starts = {} THEN NoMatch
        ELSE LET i == Min(starts)
                 k == Max(GroupStarts(block, i))
             IN  [matched |-> TRUE, group |-> SubSeq(block, k, LineEnd(block, k))]

(* first position after i that \s* cannot consume *)
AfterSpaces(block, i) ==
    LET rest == {k \in (i + 1)..Len(block) : ~IsSpace(block[k])}
    IN  IF rest = {} THEN Len(block) + 1 ELSE Min(rest)

(* end of the run of digits starting at k: \d+ is greedy *)
DigitsEnd(block, k) ==
    LET stops == {m \in k..Len(block) : ~IsDigit(block[m])}
    IN  IF stops = {} THEN Len(block) ELSE Min(stops) - 1

(* re.search(r'Line:\s*(\d+)', block) *)
SearchDigits(block) ==
    LET starts == {i \in 1..Len(block) :
                      /\ block[i] = "Line:"
                      /\ AfterSpaces(block, i) <= Len(block)
                      /\ IsDigit(block[AfterSpaces(block, i)])}
    IN  IF starts = {} THEN NoMatch
        ELSE LET k == AfterSpaces(block, Min(starts))
             IN  [matched |-> TRUE, group |-> SubSeq(block, k, DigitsEnd(block, k))]

(* the condition of the if statement: all three required fields matched *)
BlockYields(block) ==
    /\ SearchRest("File:", block).matched
    /\ SearchDigits(block).matched
    /\ SearchRest("Problem:", block).matched

(* the dictionary appended for a block *)
IssueOf(block) ==
    [file     |-> strip(SearchRest("File:", block).group),
     line     |-> int(SearchDigits(block).group),
     problem  |-> strip(SearchRest("Problem:", block).group),
     why      |-> IF SearchRest("Why:", block).matched
                  THEN strip(SearchRest("Why:", block).group) ELSE <<>>,
     solution |-> IF SearchRest("Solution:", block).matched
                  THEN strip(SearchRest("Solution:", block).group) ELSE <<>>]

RECURSIVE IssuesOfBlocks(_)
IssuesOfBlocks(blocks) ==
    IF Len(blocks) = 0 THEN <<>>
    ELSE (IF BlockYields(Head(blocks)) THEN <<IssueOf(Head(blocks))>> ELSE <<>>)
         \o IssuesOfBlocks(Tail(blocks))

parse_ai_issues(text) == IssuesOfBlocks(split(text))

---------------------------------------------------------------------------
(* The extractor on its own: every report of at most MaxLen tokens *)

ReportAlphabet ==
    {"File:", "Line:", "Problem:", "Why:", "Solution:", SP, NL, "1", "a", HR}

NoArgs == [diff_content |-> <<>>, api_key |-> "", ai_provider |-> ""]

NoResult == [kind |-> "none", report |-> <<>>, status |-> "", response |-> <<>>]

NoAnchors == [raised |-> "", lines |-> {}]

InitParse ==
    /\ pc = "parse_call"
    /\ report_text \in SeqsUpTo(ReportAlphabet, MaxLen)
    /\ issues = <<>>
    /\ diff_content = <<>>
    /\ valid_lines = NoAnchors
    /\ idx = 0
    /\ posts = <<>>
    /\ log = <<>>
    /\ args = NoArgs
    /\ requests_sent = 0
    /\ result = NoResult

CallParse ==
    /\ pc = "parse_call"
    /\ issues' = parse_ai_issues(report_text)
    /\ pc' = "parse_returned"
    /\ UNCHANGED <<report_text, diff_content, valid_lines, idx, posts, log,
                   args, requests_sent, result>>

NextParse == CallParse

SpecParse == InitParse /\ [][NextParse]_vars

---------------------------------------------------------------------------
(* Claims about the extractor, checked under SpecParse *)

(* the blocks that produced issues[1], issues[2], ... *)
IssueBlocks == SelectSeq(split(report_text), BlockYields)

(* the remainder of the source line after the label at position i *)
RestOfLine(block, i) == SubSeq(block, i + 1, LineEnd(block, i + 1))

AllDigits(s) == Len(s) > 0 /\ \A k \in 1..Len(s) : IsDigit(s[k])

HasLabel(block, label) == \E i \in 1..Len(block) : block[i] = label

TextOnLabelLine(label, block, value) ==
    \E i \in 1..Len(block) : block[i] = label /\ value = strip(RestOfLine(block, i))

(* the number is read from digits that stand on the label's own line *)
NumberOnLabelLine(block, value) ==
    \E i \in 1..Len(block) :
        /\ block[i] = "Line:"
        /\ \E k \in 1..Len(RestOfLine(block, i)) :
              /\ AllDigits(SubSeq(strip(RestOfLine(block, i)), 1, k))
              /\ value = int(SubSeq(strip(RestOfLine(block, i)), 1, k))

(* C3: every extracted issue has a non-empty file, a non-empty problem and  *)
(* a line >= 0, and issues come only from blocks that carry all three of   *)
(* the labels File, Line and Problem.                                       *)
C3_RequiredFieldsPresent ==
    pc = "parse_returned" =>
        /\ \A n \in 1..Len(issues) :
              /\ issues[n].file # <<>>
              /\ issues[n].problem # <<>>
              /\ issues[n].line >= 0
        /\ \A n \in 1..Len(IssueBlocks) :
              /\ HasLabel(IssueBlocks[n], "File:")
              /\ HasLabel(IssueBlocks[n], "Line:")
              /\ HasLabel(IssueBlocks[n], "Problem:")

(* C4: each stored field value is taken from the source line on which its  *)
(* label occurs: a text field is the trimmed remainder of that line, the   *)
(* line number is read from that line; no value holds text of a following  *)
(* line.  (That the whole remainder after Line: must be a number is C6.)   *)
C4_ValueIsRestOfLabelLine ==
    pc = "parse_returned" =>
        \A n \in 1..Len(issues) :
            LET b == IssueBlocks[n]
            IN  /\ TextOnLabelLine("File:", b, issues[n].file)
                /\ NumberOnLabelLine(b, issues[n].line)
                /\ TextOnLabelLine("Problem:", b, issues[n].problem)
                /\ issues[n].why # <<>> => TextOnLabelLine("Why:", b, issues[n].why)
                /\ issues[n].solution # <<>> =>
                       TextOnLabelLine("Solution:", b, issues[n].solution)

(* the delimiter lines: "---" with nothing else on its source line *)
RuleLines(s) ==
    {i \in 1..Len(s) :
        /\ s[i] = HR
        /\ (i = 1 \/ s[i - 1] = NL)
        /\ (i = Len(s) \/ s[i + 1] = NL)}

RECURSIVE SplitAtRuleLines(_)
SplitAtRuleLines(s) ==
    IF RuleLines(s) = {} THEN <<s>>
    ELSE LET i == Min(RuleLines(s))
         IN  <<SubSeq(s, 1, i - 1)>> \o SplitAtRuleLines(SubSeq(s, i + 1, Len(s)))

(* C5: the report is cut into blocks only at lines that consist solely of  *)
(* "---"; three hyphens inside a longer line leave the fields around them  *)
(* in one block.                                                           *)
C5_SplitOnlyAtRuleLines ==
    pc = "parse_returned" =>
        issues = IssuesOfBlocks(SplitAtRuleLines(report_text))

(* C6: a block whose Line: value (the remainder of that line) is not a     *)
(* non-negative integer yields no issue; the number is taken neither from  *)
(* a prefix of the value nor from a later occurrence of the label.         *)
C6_NonIntegerLineDiscarded ==
    pc = "parse_returned" =>
        \A n \in 1..Len(issues) :
            LET b     == IssueBlocks[n]
                first == Min({i \in 1..Len(b) : b[i] = "Line:"})
                value == strip(RestOfLine(b, first))
            IN  AllDigits(value) /\ issues[n].line = int(value)

---------------------------------------------------------------------------
(* diff_parser.py *)

(* A diff is the sequence of its file sections; a file section has the     *)
(* new-side path and its hunks; a hunk has the new-side start and the two  *)
(* lengths of its @@ header and the tags of its body lines: "+" added,     *)
(* "-" removed, " " context.                                               *)

LineTypes == {"+", "-", " "}

CountIn(ls, k, types) == Cardinality({j \in 1..k : ls[j] \in types})

(* PatchSet, hunk body: the body lines after which a counter has passed    *)
(* the end the header announces (UnidiffParseError "Hunk is longer than    *)
(* expected"), and those after which both counters have reached it (the    *)
(* hunk is complete and the parser leaves it).                              *)
OverLines(h) ==
    {k \in 1..Len(h.lines) :
        \/ CountIn(h.lines, k, {"-", " "}) > h.source_length
        \/ CountIn(h.lines, k, {"+", " "}) > h.target_length}

CompleteLines(h) ==
    {k \in 1..Len(h.lines) :
        /\ CountIn(h.lines, k, {"-", " "}) = h.source_length
        /\ CountIn(h.lines, k, {"+", " "}) = h.target_length}

HunkRaises(h) ==
    /\ OverLines(h) # {}
    /\ \A k \in CompleteLines(h) : k > Min(OverLines(h))

(* the body lines the parsed hunk holds *)
HunkLineCount(h) ==
    IF CompleteLines(h) = {} THEN Len(h.lines) ELSE Min(CompleteLines(h))

(* Line.target_line_no: counted from the hunk's new-side start, advanced   *)
(* by context and added lines, not by removed lines                        *)
target_line_no(h, k) == h.target_start + CountIn(h.lines, k - 1, {"+", " "})

PatchSetRaises(diff) ==
    \E f \in 1..Len(diff) : \E j \in 1..Len(diff[f].hunks) :
        HunkRaises(diff[f].hunks[j])

(* the properties a parsed diff line offers *)
LineAttributes == {"is_added", "is_removed", "is_context"}

(* line 14: line.is_added or line.is_modified.  `or` reads is_modified     *)
(* only when is_added is false; reading a property the line does not have  *)
(* raises AttributeError.                                                   *)
AnchorTest(type) ==
    IF type = "+" THEN "true"
    ELSE IF "is_modified" \in LineAttributes THEN "false"
    ELSE "AttributeError"

(* the (file, hunk, line) positions the three nested loops visit *)
VisitedLines(diff) ==
    {<<f, j, k>> \in (1..Len(diff)) \X (1..MaxHunks) \X (1..(MaxHunkLines + 1)) :
        /\ j <= Len(diff[f].hunks)
        /\ k <= HunkLineCount(diff[f].hunks[j])}

get_valid_diff_lines(diff) ==
    IF PatchSetRaises(diff)
    THEN [raised |-> "UnidiffParseError", lines |-> {}]
    ELSE IF \E p \in VisitedLines(diff) :
                AnchorTest(diff[p[1]].hunks[p[2]].lines[p[3]]) = "AttributeError"
    THEN [raised |-> "AttributeError", lines |-> {}]
    ELSE [raised |-> "",
          lines  |-> {<<diff[p[1]].path, target_line_no(diff[p[1]].hunks[p[2]], p[3])>> :
                        p \in {q \in VisitedLines(diff) :
                                  AnchorTest(diff[q[1]].hunks[q[2]].lines[q[3]]) = "true"}}]

---------------------------------------------------------------------------
(* The indexer on its own *)

Paths == {"a", "b"}

HunkBodies == SeqsUpTo(LineTypes, MaxHunkLines) \ {<<>>}

Hunk(start, ls, src, tgt) ==
    [target_start |-> start, source_length |-> src, target_length |-> tgt, lines |-> ls]

(* hunks whose header announces the lengths of the body *)
WellFormedHunks ==
    {Hunk(start, ls, CountIn(ls, Len(ls), {"-", " "}), CountIn(ls, Len(ls), {"+", " "})) :
        start \in 1..MaxStart, ls \in HunkBodies}

(* hunks with any header lengths: a body longer than announced is the      *)
(* malformed case                                                          *)
AnyHunks ==
    {Hunk(start, ls, src, tgt) :
        start \in 1..MaxStart, ls \in HunkBodies,
        src \in 0..MaxHunkLines, tgt \in 0..MaxHunkLines}

File(path, hunks) == [path |-> path, hunks |-> hunks]

DiffInputs ==
    {<<>>}
    \cup {<<File(p, <<h>>)>> : p \in Paths, h \in AnyHunks}
    \cup {<<File(p, hs)>> : p \in Paths, hs \in SeqsUpTo(WellFormedHunks, MaxHunks)}
    \cup {<<File(p, hs), File(q, gs)>> :
            p \in Paths, q \in Paths,
            hs \in SeqsUpTo(WellFormedHunks, 1), gs \in SeqsUpTo(WellFormedHunks, 1)}

WellFormed(diff) ==
    \A f \in 1..Len(diff) : \A j \in 1..Len(diff[f].hunks) :
        diff[f].hunks[j] \in WellFormedHunks

InitDiff ==
    /\ pc = "index_call"
    /\ diff_content \in DiffInputs
    /\ valid_lines = NoAnchors
    /\ report_text = <<>>
    /\ issues = <<>>
    /\ idx = 0
    /\ posts = <<>>
    /\ log = <<>>
    /\ args = NoArgs
    /\ requests_sent = 0
    /\ result = NoResult

CallIndex ==
    /\ pc = "index_call"
    /\ valid_lines' = get_valid_diff_lines(diff_content)
    /\ pc' = IF get_valid_diff_lines(diff_content).raised = ""
             THEN "index_returned" ELSE "index_raised"
    /\ UNCHANGED <<report_text, issues, diff_content, idx, posts, log,
                   args, requests_sent, result>>

NextDiff == CallIndex

SpecDiff == InitDiff /\ [][NextDiff]_vars

(* the anchors the diff's added lines stand for: per file, the new-file    *)
(* number of every body line tagged "+"                                    *)
AddedPairs(diff) ==
    {<<diff[f].path, diff[f].hunks[j].target_start
                       + CountIn(diff[f].hunks[j].lines, k - 1, {"+", " "})>> :
        <<f, j, k>> \in {t \in (1..Len(diff)) \X (1..MaxHunks) \X (1..MaxHunkLines + 1) :
                            /\ t[2] <= Len(diff[t[1]].hunks)
                            /\ t[3] <= Len(diff[t[1]].hunks[t[2]].lines)
                            /\ diff[t[1]].hunks[t[2]].lines[t[3]] = "+"}}

(* C2: for every well-formed diff, with context, removed and added lines,  *)
(* get_valid_diff_lines returns exactly the (new-side path, new-file line  *)
(* number) pairs of the added lines.                                       *)
C2_AnchorsAreAddedLines ==
    (pc # "index_call" /\ WellFormed(diff_content)) =>
        /\ pc = "index_returned"
        /\ valid_lines.lines = AddedPairs(diff_content)

---------------------------------------------------------------------------
(* post_inline_comments.py: one run of the script *)

(* a report block as the prompt asks for it *)
IssueBlock(f, d) ==
    <<"File:", SP, f, NL, "Line:", SP, d, NL, "Problem:", SP, "a", NL>>

(* a block without its Line: field *)
PartialBlock == <<"File:", SP, "a", NL, "Problem:", SP, "a", NL>>

ReportBlocks == {IssueBlock(f, d) : f \in Paths, d \in Digits} \cup {PartialBlock}

RECURSIVE JoinBlocks(_)
JoinBlocks(blocks) ==
    IF Len(blocks) = 0 THEN <<>>
    ELSE IF Len(blocks) = 1 THEN Head(blocks)
    ELSE Head(blocks) \o <<HR, NL>> \o JoinBlocks(Tail(blocks))

PubReports == {JoinBlocks(bs) : bs \in SeqsUpTo(ReportBlocks, MaxIssues)}

AddedOnlyHunks == {h \in WellFormedHunks : \A k \in 1..Len(h.lines) : h.lines[k] = "+"}

PubDiffs ==
    {<<>>}
    \cup {<<File(p, <<h>>)>> : p \in Paths, h \in WellFormedHunks}
    \cup {<<File(p, <<h>>), File(q, <<g>>)>> :
            p \in Paths, q \in Paths, h \in AddedOnlyHunks, g \in AddedOnlyHunks}

InitPub ==
    /\ pc = "pub_start"
    /\ report_text \in PubReports
    /\ diff_content \in PubDiffs
    /\ issues = <<>>
    /\ valid_lines = NoAnchors
    /\ idx = 0
    /\ posts = <<>>
    /\ log = <<>>
    /\ args = NoArgs
    /\ requests_sent = 0
    /\ result = NoResult

Printed(msg, f, n) == [msg |-> msg, file |-> f, line |-> n]

(* lines 7-19: the report file is read and parsed; the script exits when   *)
(* the file is missing (1) or no issue was extracted (0)                   *)
LoadReport ==
    /\ pc = "pub_start"
    /\ \E exists \in BOOLEAN :
          IF ~exists
          THEN /\ pc' = "exit_1"
               /\ log' = Append(log, Printed("report not found", <<>>, 0))
               /\ UNCHANGED issues
          ELSE /\ issues' = parse_ai_issues(report_text)
               /\ IF parse_ai_issues(report_text) = <<>>
                  THEN /\ pc' = "exit_0"
                       /\ log' = Append(log, Printed("no issues", <<>>, 0))
                  ELSE /\ pc' = "pub_have_issues"
                       /\ UNCHANGED log
    /\ UNCHANGED <<report_text, diff_content, valid_lines, idx, posts,
                   args, requests_sent, result>>

(* lines 21-30: the diff file is read and indexed; an exception of         *)
(* get_valid_diff_lines is not caught and ends the script                  *)
LoadDiff ==
    /\ pc = "pub_have_issues"
    /\ \E exists \in BOOLEAN :
          IF ~exists
          THEN /\ pc' = "exit_1"
               /\ log' = Append(log, Printed("diff not found", <<>>, 0))
               /\ UNCHANGED valid_lines
          ELSE /\ valid_lines' = get_valid_diff_lines(diff_content)
               /\ pc' = IF get_valid_diff_lines(diff_content).raised = ""
                        THEN "pub_have_anchors" ELSE "aborted"
               /\ UNCHANGED log
    /\ UNCHANGED <<report_text, issues, diff_content, idx, posts,
                   args, requests_sent, result>>

(* lines 32-41: GITHUB_TOKEN, GITHUB_REPOSITORY, PR_NUMBER; the unpacking  *)
(* of REPO.split("/") raises unless REPO has exactly one "/"               *)
ReadEnv ==
    /\ pc = "pub_have_anchors"
    /\ \E env \in {"missing", "not owner/repo", "ok"} :
          /\ pc' = CASE env = "missing" -> "exit_1"
                     [] env = "not owner/repo" -> "aborted"
                     [] OTHER -> "pub_have_env"
          /\ log' = IF env = "missing"
                    THEN Append(log, Printed("missing env", <<>>, 0)) ELSE log
    /\ UNCHANGED <<report_text, issues, diff_content, valid_lines, idx, posts,
                   args, requests_sent, result>>

(* lines 43-52: the pull request is fetched for its head commit *)
FetchPR ==
    /\ pc = "pub_have_env"
    /\ \E outcome \in {"200", "other status", "raised"} :
          /\ pc' = CASE outcome = "200" -> "pub_loop"
                     [] outcome = "other status" -> "exit_1"
                     [] OTHER -> "aborted"
          /\ log' = IF outcome = "other status"
                    THEN Append(log, Printed("failed to fetch PR", <<>>, 0)) ELSE log
    /\ UNCHANGED <<report_text, issues, diff_content, valid_lines, idx, posts,
                   args, requests_sent, result>>

(* lines 60-71: the JSON body of the comment request *)
Payload(issue) ==
    [body |-> <<issue.problem, issue.why, issue.solution>>,
     path |-> issue.file, line |-> issue.line, side |-> "RIGHT"]

ShouldPost_unchecked(issue, valid, sent) == TRUE

ShouldPost_once_per_anchor(issue, valid, sent) ==
    /\ <<issue.file, issue.line>> \in valid.lines
    /\ \A k \in 1..Len(sent) : <<sent[k].path, sent[k].line>> # <<issue.file, issue.line>>

(* lines 56-58: the test that guards the POST; negated, it skips the issue *)
ShouldPost(issue, valid, sent) == <<issue.file, issue.line>> \in valid.lines

(* lines 55-77: one iteration of the for loop over the issues *)
LoopStep ==
    /\ pc = "pub_loop"
    /\ idx < Len(issues)
    /\ LET issue == issues[idx + 1]
       IN  IF ~ShouldPost(issue, valid_lines, posts)
           THEN /\ log' = Append(log, Printed("skipping hallucinated issue",
                                              issue.file, issue.line))
                /\ idx' = idx + 1
                /\ pc' = IF idx + 1 = Len(issues) THEN "pub_done" ELSE "pub_loop"
                /\ UNCHANGED posts
           ELSE /\ posts' = Append(posts, Payload(issue))
                /\ \E outcome \in {"201", "other status", "raised"} :
                      IF outcome = "raised"
                      THEN /\ pc' = "aborted"
                           /\ UNCHANGED <<idx, log>>
                      ELSE /\ log' = Append(log,
                                 Printed(IF outcome = "201" THEN "posted" ELSE "failed to post",
                                         issue.file, issue.line))
                           /\ idx' = idx + 1
                           /\ pc' = IF idx + 1 = Len(issues) THEN "pub_done" ELSE "pub_loop"
    /\ UNCHANGED <<report_text, issues, diff_content, valid_lines,
                   args, requests_sent, result>>

NextPub == LoadReport \/ LoadDiff \/ ReadEnv \/ FetchPR \/ LoopStep

SpecPub == InitPub /\ [][NextPub]_vars

---------------------------------------------------------------------------
(* Claims about the publisher, checked under SpecPub *)

Anchor(issue) == <<issue.file, issue.line>>

InAnchorSet(issue) == valid_lines.raised = "" /\ Anchor(issue) \in valid_lines.lines

(* C1: a comment POST is issued only for a (file, line) of the anchor set  *)
(* that get_valid_diff_lines returned; every issue the loop has consumed   *)
(* whose (file, line) is not in the set got no POST and a logged rejection *)
(* naming its file and line.                                               *)
C1_PostOnlyForAnchors ==
    /\ \A k \in 1..Len(posts) :
          /\ valid_lines.raised = ""
          /\ <<posts[k].path, posts[k].line>> \in valid_lines.lines
          /\ \E n \in 1..Len(issues) : posts[k] = Payload(issues[n])
    /\ \A n \in 1..idx :
          ~InAnchorSet(issues[n]) =>
              /\ \E m \in 1..Len(log) :
                    log[m] = Printed("skipping hallucinated issue",
                                     issues[n].file, issues[n].line)
              /\ \A k \in 1..Len(posts) :
                    <<posts[k].path, posts[k].line>> # Anchor(issues[n])

(* a finished run that posted one issue and rejected another *)
C1_Witness ==
    /\ pc = "pub_done"
    /\ Len(posts) = 1
    /\ \E m \in 1..Len(log) : log[m].msg = "skipping hallucinated issue"

(* C7: the core never aborts the publisher run: for every diff (malformed *)
(* ones and ones with context or removed lines included)                   *)
(* get_valid_diff_lines returns without raising, so no run ends inside it. *)
C7_IndexerNeverRaises == valid_lines.raised = ""

RECURSIVE Payloads(_)
Payloads(is) ==
    IF Len(is) = 0 THEN <<>> ELSE <<Payload(Head(is))>> \o Payloads(Tail(is))

IsPrefix(s, t) == Len(s) <= Len(t) /\ s = SubSeq(t, 1, Len(s))

(* C9: the POSTs are, in report order, one per extracted issue that passes *)
(* the anchor check: at every moment a prefix of that filtered sequence,   *)
(* with the issues consumed so far all served; after the loop the whole of *)
(* it, duplicates of one (file, line) included, whatever status the        *)
(* earlier POSTs returned.                                                 *)
C9_PostsAreFilteredIssues ==
    /\ IsPrefix(posts, Payloads(SelectSeq(issues, InAnchorSet)))
    /\ IsPrefix(Payloads(SelectSeq(SubSeq(issues, 1, idx), InAnchorSet)), posts)
    /\ Len(posts) <= Len(SelectSeq(SubSeq(issues, 1, idx), InAnchorSet)) + 1
    /\ pc = "pub_done" => posts = Payloads(SelectSeq(issues, InAnchorSet))

(* a finished run with two POSTs for the same (file, line), the first of   *)
(* which was answered with a status other than 201                         *)
C9_Witness ==
    /\ pc = "pub_done"
    /\ Len(posts) = 2
    /\ posts[1].path = posts[2].path
    /\ posts[1].line = posts[2].line
    /\ log[1].msg = "failed to post"

---------------------------------------------------------------------------
(* analyze_diff.py: one call of analyze_merge_issues *)

STATUS == "Overall Status:"

(* str.lower() and str.upper() on the tokens of the modelled texts *)
lower(t) ==
    CASE t = "Gemini" -> "gemini"
      [] t = "OPENAI" -> "openai"
      [] t = "PASS" -> "pass"
      [] t = "FAIL" -> "fail"
      [] t = STATUS -> "overall status:"
      [] t = "Looks Good To Merge" -> "looks good to merge"
      [] OTHER -> t

upper(t) ==
    CASE t = "pass" -> "PASS"
      [] t = STATUS -> "OVERALL STATUS:"
      [] t = "no obvious issues" -> "NO OBVIOUS ISSUES"
      [] t = "Looks Good To Merge" -> "LOOKS GOOD TO MERGE"
      [] t = "x" -> "X"
      [] OTHER -> t

(* str.splitlines(): no last empty line after a final line break *)
RECURSIVE splitlines(_)
splitlines(s) ==
    IF Len(s) = 0 THEN <<>>
    ELSE IF \A i \in 1..Len(s) : s[i] # NL THEN <<s>>
    ELSE LET i == Min({k \in 1..Len(s) : s[k] = NL})
         IN  <<SubSeq(s, 1, i - 1)>> \o splitlines(SubSeq(s, i + 1, Len(s)))

(* "\n".join(lines) *)
RECURSIVE join(_)
join(lines) ==
    IF Len(lines) = 0 THEN <<>>
    ELSE IF Len(lines) = 1 THEN Head(lines)
    ELSE Head(lines) \o <<NL>> \o join(Tail(lines))

FallbackPhrases == {"no obvious issues", "no significant issues", "looks good to merge"}

StatusOfLine_fail_first(last_line) ==
    IF \E k \in 1..Len(last_line) : upper(last_line[k]) = "FAIL" THEN "FAIL"
    ELSE IF \E k \in 1..Len(last_line) : upper(last_line[k]) = "PASS" THEN "PASS"
    ELSE "FAIL"

(* lines 168, 175-179: the status a status line gives *)
StatusOfLine(last_line) ==
    IF \E k \in 1..Len(last_line) : upper(last_line[k]) = "PASS" THEN "PASS"
    ELSE IF \E k \in 1..Len(last_line) : upper(last_line[k]) = "FAIL" THEN "FAIL"
    ELSE "FAIL"

(* lines 166-194: the report and the status taken from the analysis text *)
SplitStatus(analysis_text) ==
    LET report_lines == splitlines(analysis_text)
        n            == Len(report_lines)
    IN  IF n > 0 /\ \E k \in 1..Len(report_lines[n]) : report_lines[n][k] = STATUS
        THEN [report |-> strip(join(SubSeq(report_lines, 1, n - 1))),
              status |-> StatusOfLine(strip(report_lines[n]))]
        ELSE [report |-> analysis_text,
              status |-> IF \E k \in 1..Len(analysis_text) :
                                lower(analysis_text[k]) \in FallbackPhrases
                         THEN "PASS" ELSE "FAIL"]

SupportedProviders == {"gemini", "openai"}

(* lines 84-87 and 125-144: the returns that precede the request *)
EarlyReturn(a) ==
    IF strip(a.diff_content) = <<>>
    THEN <<"Error: No branch differences provided for analysis.">>
    ELSE IF a.api_key = ""
    THEN <<"Error: API key for ", a.ai_provider, " not provided.">>
    ELSE IF lower(a.ai_provider) \notin SupportedProviders
    THEN <<"Error: Unsupported AI provider '", a.ai_provider, "'.">>
    ELSE <<>>

(* lines 148-151: what the try block raises for an outcome of the request *)
RaisedBy(resp) ==
    CASE resp.kind = "ConnectionError" -> "RequestException"
      [] resp.kind = "HTTPError" -> "RequestException"
      [] resp.kind = "not JSON" -> "JSONDecodeError"
      [] resp.kind = "JSON array" -> "AttributeError"
      [] OTHER -> ""

Handled_without_catch_all(exc) ==
    CASE exc = "RequestException" -> {<<"Error calling API: ", exc>>}
      [] exc = "JSONDecodeError" ->
             {<<"Error calling API: ", exc>>, <<"Error: Failed to decode JSON response">>}
      [] OTHER -> {}

(* lines 196-204: the messages the except clauses can return for an        *)
(* exception; none when no clause catches it.  The JSON error of           *)
(* response.json() is a RequestException in newer releases of requests.    *)
Handled(exc) ==
    CASE exc = "RequestException" -> {<<"Error calling API: ", exc>>}
      [] exc = "JSONDecodeError" ->
             {<<"Error calling API: ", exc>>, <<"Error: Failed to decode JSON response">>}
      [] OTHER -> {<<"An unexpected error occurred during analysis: ", exc>>}

(* lines 155-160: the text found in the provider's place of the JSON *)
AnalysisText(provider, resp) ==
    IF resp.kind = "JSON object" /\ resp.shape = lower(provider) THEN resp.text ELSE <<>>

RespAlphabet ==
    {STATUS, "PASS", "pass", "FAIL", "no obvious issues", "Looks Good To Merge",
     SP, NL, "x"}

Response(kind, shape, text) == [kind |-> kind, shape |-> shape, text |-> text]

Responses ==
    {Response(k, "neither", <<>>) :
        k \in {"ConnectionError", "HTTPError", "not JSON", "JSON array", "JSON object"}}
    \cup {Response("JSON object", sh, t) :
            sh \in SupportedProviders, t \in SeqsUpTo(RespAlphabet, MaxRespLen)}

InitAnalyze ==
    /\ pc = "an_call"
    /\ args \in [diff_content : {<<>>, <<SP>>, <<"x">>, <<NL, "x">>},
                 api_key      : {"", "k"},
                 ai_provider  : {"gemini", "Gemini", "openai", "OPENAI", "anthropic", ""}]
    /\ requests_sent = 0
    /\ result = NoResult
    /\ report_text = <<>>
    /\ issues = <<>>
    /\ diff_content = <<>>
    /\ valid_lines = NoAnchors
    /\ idx = 0
    /\ posts = <<>>
    /\ log = <<>>

(* lines 84-148: the arguments are checked and the request is sent *)
AnalyzeStart ==
    /\ pc = "an_call"
    /\ IF EarlyReturn(args) # <<>>
       THEN /\ result' = [kind |-> "early", report |-> EarlyReturn(args),
                          status |-> "FAIL", response |-> <<>>]
            /\ pc' = "an_returned"
            /\ UNCHANGED requests_sent
       ELSE /\ requests_sent' = requests_sent + 1
            /\ pc' = "an_waiting"
            /\ UNCHANGED result
    /\ UNCHANGED <<report_text, issues, diff_content, valid_lines, idx, posts, log, args>>

(* lines 148-204: the request's outcome is turned into the returned pair *)
AnalyzeFinish ==
    /\ pc = "an_waiting"
    /\ \E resp \in Responses :
          IF RaisedBy(resp) # ""
          THEN IF Handled(RaisedBy(resp)) = {}
               THEN /\ pc' = "an_raised"
                    /\ result' = [kind |-> "raised", report |-> <<>>, status |-> "",
                                  response |-> resp]
               ELSE /\ pc' = "an_returned"
                    /\ \E msg \in Handled(RaisedBy(resp)) :
                          result' = [kind |-> "error", report |-> msg, status |-> "FAIL",
                                     response |-> resp]
          ELSE /\ pc' = "an_returned"
               /\ IF AnalysisText(args.ai_provider, resp) = <<>>
                  THEN result' = [kind |-> "no analysis",
                                  report |-> <<"No analysis result found from ",
                                               args.ai_provider>>,
                                  status |-> "FAIL", response |-> resp]
                  ELSE result' =
                         [kind |-> "analysis",
                          report |-> SplitStatus(AnalysisText(args.ai_provider, resp)).report,
                          status |-> SplitStatus(AnalysisText(args.ai_provider, resp)).status,
                          response |-> resp]
    /\ UNCHANGED <<report_text, issues, diff_content, valid_lines, idx, posts, log,
                   args, requests_sent>>

NextAnalyze == AnalyzeStart \/ AnalyzeFinish

SpecAnalyze == InitAnalyze /\ [][NextAnalyze]_vars

---------------------------------------------------------------------------
(* Claims about analyze_merge_issues, checked under SpecAnalyze *)

ArgsRejected ==
    \/ \A k \in 1..Len(args.diff_content) : IsSpace(args.diff_content[k])
    \/ args.api_key = ""
    \/ args.ai_provider \notin {"gemini", "Gemini", "openai", "OPENAI"}

(* C8: the call never raises and returns status PASS or FAIL; on every     *)
(* error path (empty diff, missing key, unsupported provider, transport or *)
(* HTTP error, non-JSON response, response without analysis text, any      *)
(* other exception) it returns FAIL with a non-empty message; it sends at  *)
(* most one HTTP request, and none when the arguments are rejected.        *)
C8_FailWithoutRaisingOrRetry ==
    /\ pc # "an_raised"
    /\ requests_sent <= 1
    /\ ArgsRejected => requests_sent = 0
    /\ pc = "an_returned" =>
          /\ result.status \in {"PASS", "FAIL"}
          /\ ArgsRejected => result.status = "FAIL" /\ result.report # <<>>
          /\ (~ArgsRejected /\ (result.response.kind # "JSON object"
                                \/ result.response.text = <<>>
                                \/ result.response.shape # lower(args.ai_provider))) =>
                result.status = "FAIL" /\ result.report # <<>>

(* a call that sent its one request, got JSON that is no object, and       *)
(* returned FAIL                                                           *)
C8_Witness ==
    /\ pc = "an_returned"
    /\ requests_sent = 1
    /\ result.response.kind = "JSON array"
    /\ result.status = "FAIL"

(* the response's last line, and what stands before it *)
WithoutFinalBreak(text) ==
    IF Len(text) > 0 /\ text[Len(text)] = NL THEN SubSeq(text, 1, Len(text) - 1) ELSE text

LastLineStart(text) ==
    LET t   == WithoutFinalBreak(text)
        nls == {k \in 1..Len(t) : t[k] = NL}
    IN  IF nls = {} THEN 1 ELSE Max(nls) + 1

LastLine(text) ==
    SubSeq(WithoutFinalBreak(text), LastLineStart(text), Len(WithoutFinalBreak(text)))

BeforeLastLine(text) == SubSeq(text, 1, LastLineStart(text) - 1)

HasToken(s, tokens) == \E k \in 1..Len(s) : s[k] \in tokens

StatusClaimed(text) ==
    IF HasToken(LastLine(text), {STATUS})
    THEN IF HasToken(LastLine(text), {"PASS", "pass"}) THEN "PASS" ELSE "FAIL"
    ELSE IF HasToken(text, {"no obvious issues", "Looks Good To Merge"}) THEN "PASS"
    ELSE "FAIL"

(* C10 as stated: with a status line, the report is the response with that *)
(* last line removed (with or without the line break that preceded it);    *)
(* without one, the report is the response unchanged; the status as in     *)
(* C10_StatusAndTrimmedReport.                                             *)
C10_ReportIsResponseWithoutLastLine ==
    (pc = "an_returned" /\ result.kind = "analysis") =>
        LET text == result.response.text
        IN  /\ result.status = StatusClaimed(text)
            /\ IF HasToken(LastLine(text), {STATUS})
               THEN result.report \in {BeforeLastLine(text),
                                       WithoutFinalBreak(BeforeLastLine(text))}
               ELSE result.report = text

(* C10, amended: when the response's last line contains "Overall Status:", *)
(* the status is PASS exactly when that line contains "PASS" in any case   *)
(* (also beside "FAIL") and FAIL otherwise, the fallback phrases are not   *)
(* consulted, and the report is the text before that line with leading and *)
(* trailing whitespace trimmed; otherwise the report is the response       *)
(* unchanged and the status is PASS exactly when it contains one of the    *)
(* fallback phrases in any case.                                           *)
C10_StatusAndTrimmedReport ==
    (pc = "an_returned" /\ result.kind = "analysis") =>
        LET text == result.response.text
        IN  /\ result.status = StatusClaimed(text)
            /\ IF HasToken(LastLine(text), {STATUS})
               THEN result.report = strip(BeforeLastLine(text))
               ELSE result.report = text

(* a response whose status line says PASS and whose text before that line  *)
(* lost surrounding whitespace in the report                               *)
C10_Witness ==
    /\ pc = "an_returned"
    /\ result.kind = "analysis"
    /\ HasToken(LastLine(result.response.text), {STATUS})
    /\ result.status = "PASS"
    /\ result.report # BeforeLastLine(result.response.text)
    /\ result.report # WithoutFinalBreak(BeforeLastLine(result.response.text))

=============================================================================
